---- MODULE Spec2Model ----
(***************************************************************************)
(* SAPI data model (lib/model.js): applications, services and instances    *)
(* kept in three moray buckets, the referential checks made on create, and *)
(* the deployment of an instance through assembleParams and deployZone.    *)
(*                                                                         *)
(* Every request is a chain of asynchronous collaborator calls.  A request *)
(* occupies a slot; one action of the model is one callback of the code:   *)
(* the collaborator executes the outstanding call (its effect on storage   *)
(* happens there), the callback runs to its end, and the next call, if     *)
(* any, is issued.  Callbacks of different requests interleave freely.     *)
(***************************************************************************)
EXTENDS Naturals, Sequences, FiniteSets, TLC

\* ---------------------------------------------------------------- bounds

\* concurrent requests in flight
MaxReqs == 2
\* identifiers a caller may supply: "u1" .. "u<MaxUuid>"
MaxUuid == 1
\* identifiers node_uuid.v4() may return: "g1" .. "g<MaxGen>"
MaxGen == 1
\* identities known to callers as owners: "o1" .. "o<MaxOwner>"
MaxOwner == 1
\* images known to callers: "i1" .. "i<MaxImage>"
MaxImage == 1
\* requests made in one run
MaxStarted == 5
\* calls of initBuckets, one after the other
MaxRuns == 2

\* ------------------------------------------------------------- constants

APPLICATIONS == "sapi_applications"
SERVICES == "sapi_services"
INSTANCES == "sapi_instances"

Buckets == {APPLICATIONS, SERVICES, INSTANCES}

\* JavaScript null / undefined: the function with the empty domain
Null == <<>>

Reqs == 1..MaxReqs

UuidNames == <<"u1", "u2", "u3">>
GenNames == <<"g1", "g2", "g3">>
OwnerNames == <<"o1", "o2", "o3">>
ImageNames == <<"i1", "i2", "i3">>

FirstN(names, n) == { names[i] : i \in { j \in DOMAIN names : j <= n } }

UUIDS == FirstN(UuidNames, MaxUuid)
GENERATED == FirstN(GenNames, MaxGen)
OWNERS == FirstN(OwnerNames, MaxOwner)
IMAGES == FirstN(ImageNames, MaxImage)

\* every identifier a record can be stored under
KEYS == UUIDS \cup GENERATED

\* ----------------------------------------------------------------- state

VARIABLES
  \* moray[b]: the objects of bucket b, a function from key to value
  moray,
  \* req[r]: the request in slot r (the operation, its arguments, the call it
  \* waits for, its local variables, the trace of the calls it has made and of
  \* the invocations of its caller's callback)
  req,
  \* started: the number of requests made so far
  started,
  \* asm: one application of assembleParams and deployZone to given records
  asm,
  \* boot: the calls of initBuckets made at startup, their per-bucket progress
  \* and the invocations of their callbacks
  boot

vars == <<moray, req, started, asm, boot>>

\* ------------------------------------------------------------- records

Restrict(f, S) == [k \in S \cap DOMAIN f |-> f[k]]

\* params[key] = value over a (possibly absent) map
Merge(base, over) ==
  [k \in DOMAIN base \cup DOMAIN over |->
     IF k \in DOMAIN over THEN over[k] ELSE base[k]]

\* obj.field = value
SetField(obj, field, value) ==
  [k \in DOMAIN obj \cup {field} |-> IF k = field THEN value ELSE obj[k]]

\* an assert.string that lets a missing name pass
IsString_nameOptional(obj, field) == field = "name" \/ field \in DOMAIN obj

\* assert.string(obj.field): the inputs carry strings or nothing
IsString(obj, field) == field \in DOMAIN obj

ApplicationFull ==
  { [name |-> "app", owner_uuid |-> o, uuid |-> u] :
      o \in OWNERS, u \in UUIDS }

ServiceFull ==
  { [name |-> "svc", application_uuid |-> a, image_uuid |-> i, uuid |-> u] :
      a \in UUIDS, i \in IMAGES, u \in UUIDS }

InstanceFull ==
  { [name |-> "inst", service_uuid |-> s, uuid |-> u] :
      s \in UUIDS, u \in UUIDS }

\* what a caller may leave out: any of the optional fields, or one required one
FieldSets(required, optional) ==
  { required \cup o : o \in SUBSET optional }
    \cup { (required \cup optional) \ {f} : f \in required }

ApplicationInputs ==
  { Restrict(full, F) : full \in ApplicationFull,
      F \in FieldSets({"name", "owner_uuid"}, {"uuid"}) }

ServiceInputs ==
  { Restrict(full, F) : full \in ServiceFull,
      F \in FieldSets({"name", "application_uuid", "image_uuid"}, {"uuid"}) }

InstanceInputs ==
  { Restrict(full, F) : full \in InstanceFull,
      F \in FieldSets({"name", "service_uuid"}, {"uuid"}) }

\* --------------------------------------------------------------- errors

AssertionError(what) == [name |-> "AssertionError", message |-> what]
TypeError(what) == [name |-> "TypeError", message |-> what]
Error(fmt, arg) == [name |-> "Error", message |-> fmt, arg |-> arg]
MorayError == [name |-> "MorayError"]
UfdsNotFound == [name |-> "ResourceNotFoundError"]
UfdsError == [name |-> "UfdsError"]
ImgapiError == [name |-> "ImgapiError"]
VmapiError == [name |-> "VmapiError"]

\* -------------------------------------------------------------- storage

\* moray.putObject(bucket, key, value): upsert by key
putObject(bucket, key, value) ==
  [moray EXCEPT ![bucket] = SetField(@, key, value)]

\* delObject on the applications bucket, whatever the bucket given
delObject_wrongBucket(bucket, key) ==
  [moray EXCEPT ![APPLICATIONS] = Restrict(@, DOMAIN @ \ {key})]

\* delObject that takes the records that refer to the key with it
delObject_cascades(bucket, key) ==
  [b \in DOMAIN moray |->
     Restrict(moray[b],
       { k \in DOMAIN moray[b] :
           /\ ~(b = bucket /\ k = key)
           /\ ~( /\ "application_uuid" \in DOMAIN moray[b][k]
                 /\ moray[b][k].application_uuid = key )
           /\ ~( /\ "service_uuid" \in DOMAIN moray[b][k]
                 /\ moray[b][k].service_uuid = key ) })]

\* delObject that empties the bucket
delObject_emptiesBucket(bucket, key) ==
  [moray EXCEPT ![bucket] = Null]

\* moray.delObject(bucket, key, {}): the object under key is gone afterwards
delObject(bucket, key) ==
  [moray EXCEPT ![bucket] = Restrict(@, DOMAIN @ \ {key})]

\* sprintf('(uuid=%s)', uuid)
UuidFilter(uuid) == [attr |-> "uuid", value |-> uuid]

\* '(uuid=*)'
ListFilter == [attr |-> "uuid", value |-> "*"]

\* an equality filter on an attribute, or its presence when the value is *
Matches(filter, value) ==
  /\ filter.attr \in DOMAIN value
  /\ \/ filter.value = "*"
     \/ value[filter.attr] = filter.value

\* the values of the 'record' events of moray.findObjects(bucket, filter, {})
findObjects(bucket, filter) ==
  { moray[bucket][k] :
      k \in { j \in DOMAIN moray[bucket] : Matches(filter, moray[bucket][j]) } }

\* listObjects: findObjects with '(uuid=*)'
listObjects(bucket) == findObjects(bucket, ListFilter)

\* getObject whose filter matches every object
getObject_anyObject(bucket, uuid) ==
  IF listObjects(bucket) = {} THEN {Null} ELSE listObjects(bucket)

\* getObject: objs.length > 0 ? objs[0] : null, for each order of arrival
getObject(bucket, uuid) ==
  IF findObjects(bucket, UuidFilter(uuid)) = {}
    THEN {Null}
    ELSE findObjects(bucket, UuidFilter(uuid))

\* a moray call ends with an error of the backend, or without one
MorayOutcomes == { [err |-> e, value |-> Null] : e \in {Null, MorayError} }

\* ------------------------------------------------------------- requests

Idle ==
  [op |-> "idle", pc |-> "idle", input |-> Null, obj |-> Null,
   service |-> Null, application |-> Null, params |-> Null,
   calls |-> <<>>, replies |-> <<>>, cbs |-> <<>>, thrown |-> Null]

\* a slot takes a new request when it holds none, or one that has ended
Free(r) ==
  /\ req[r].pc \in {"idle", "done", "threw"}
  /\ started < MaxStarted

\* a new request: op(input, cb)
Begin(op, input) == [Idle EXCEPT !.op = op, !.input = input, !.obj = input]

\* the request throws: nothing of it runs afterwards
Throw(q, error) == [q EXCEPT !.pc = "threw", !.thrown = error]

\* a waterfall that lists the application check and the image check, and the
\* service lookup and the application lookup, the other way round
Call_swapsChecks(q, fn) ==
  LET first == IF fn = "getApplication" THEN "getImage"
               ELSE IF fn = "getImage" THEN "getApplication"
               ELSE fn
  IN  [q EXCEPT !.pc = first, !.calls = Append(@, first)]

\* the request calls a collaborator and waits for its callback
Call(q, fn) == [q EXCEPT !.pc = fn, !.calls = Append(@, fn)]

\* the collaborator calls the request back: the arguments of the callback
Reply(q, out) == [q EXCEPT !.replies = Append(@, out)]

\* a callback that hands its caller a new error in place of the one it got
Callback_wrapsError(q, err, value) ==
  [q EXCEPT !.pc = "done",
     !.cbs = Append(@, [err |-> IF err = Null THEN Null
                                 ELSE [name |-> "Error", message |-> "failed"],
                        value |-> value])]

\* the request invokes its caller's callback: cb(err, value)
Callback(q, err, value) ==
  [q EXCEPT !.pc = "done", !.cbs = Append(@, [err |-> err, value |-> value])]

Waiting(r, op, fn) == req[r].op = op /\ req[r].pc = fn

\* a uuid generated whether or not the caller gave one
WithUuid_alwaysGenerates(obj, generated) == SetField(obj, "uuid", generated)

\* if (!obj.uuid) obj.uuid = node_uuid.v4()
WithUuid(obj, generated) ==
  IF "uuid" \in DOMAIN obj THEN obj ELSE SetField(obj, "uuid", generated)

\* --------------------------------------------------------- applications

\* validOwnerUUID that takes an unreachable ufds for a valid owner
validOwnerUUID_unreachableIsValid(err, user) == err = Null \/ err = UfdsError

\* validOwnerUUID: cb(null, false) on any error of ufds.getUser, else true
validOwnerUUID(err, user) == err = Null

\* ufds.getUser(owner_uuid, cb): a user, or an error (not found, unreachable)
GetUserOutcomes(owner_uuid) ==
  { [err |-> Null, value |-> [uuid |-> owner_uuid]],
    [err |-> UfdsNotFound, value |-> Null],
    [err |-> UfdsError, value |-> Null] }

\* createApplication(app, cb), up to the call of ufds.getUser
createApplication(r) ==
  /\ Free(r)
  /\ \E app \in ApplicationInputs, generated \in GENERATED :
       LET q == Begin("createApplication", app) IN
       req' = [req EXCEPT ![r] =
         IF ~IsString(app, "name")
           THEN Throw(q, AssertionError("app.name"))
         ELSE IF ~IsString(app, "owner_uuid")
           THEN Throw(q, AssertionError("app.owner_uuid"))
         ELSE Call([q EXCEPT !.obj = WithUuid(app, generated)], "getUser")]
  /\ started' = started + 1
  /\ UNCHANGED <<moray, asm, boot>>

\* the callback of validOwnerUUID in createApplication
createApplication_validOwnerUUID(r) ==
  /\ Waiting(r, "createApplication", "getUser")
  /\ \E out \in GetUserOutcomes(req[r].obj.owner_uuid) :
       req' = [req EXCEPT ![r] =
         IF validOwnerUUID(out.err, out.value)
           THEN Call(Reply(@, out), "putObject")
           ELSE Callback(Reply(@, out),
                         Error("invalid user: %s", @.obj.owner_uuid), @.obj)]
  /\ UNCHANGED <<moray, started, asm, boot>>

\* the callback of moray.putObject in createApplication
createApplication_putObject(r) ==
  /\ Waiting(r, "createApplication", "putObject")
  /\ \E out \in MorayOutcomes :
       /\ moray' = IF out.err = Null
                     THEN putObject(APPLICATIONS, req[r].obj.uuid, req[r].obj)
                     ELSE moray
       /\ req' = [req EXCEPT ![r] = Callback(Reply(@, out), out.err, @.obj)]
  /\ UNCHANGED <<started, asm, boot>>

\* listApplications(cb)
listApplications(r) ==
  /\ Free(r)
  /\ req' = [req EXCEPT ![r] = Call(Begin("listApplications", Null), "listObjects")]
  /\ started' = started + 1
  /\ UNCHANGED <<moray, asm, boot>>

\* getApplication(uuid, cb)
getApplication(r) ==
  /\ Free(r)
  /\ \E uuid \in KEYS :
       req' = [req EXCEPT ![r] =
         Call(Begin("getApplication", [uuid |-> uuid]), "getObject")]
  /\ started' = started + 1
  /\ UNCHANGED <<moray, asm, boot>>

\* delApplication(uuid, cb)
delApplication(r) ==
  /\ Free(r)
  /\ \E uuid \in KEYS :
       req' = [req EXCEPT ![r] =
         Call(Begin("delApplication", [uuid |-> uuid]), "delObject")]
  /\ started' = started + 1
  /\ UNCHANGED <<moray, asm, boot>>

\* ------------------------------------------------------------- services

\* self.getApplication(uuid, cb) / self.getService(uuid, cb) made inside a
\* request: getObject's cb(err) or cb(null, obj)
LookupOutcomes(bucket, uuid) ==
  { [err |-> MorayError, value |-> Null] }
    \cup { [err |-> Null, value |-> o] : o \in getObject(bucket, uuid) }

\* imgapi.getImage(image_uuid, cb): an image, none, or an error
GetImageOutcomes(image_uuid) ==
  { [err |-> Null, value |-> [uuid |-> image_uuid]],
    [err |-> Null, value |-> Null],
    [err |-> ImgapiError, value |-> Null] }

\* if (!err && !app)
createService_noApplication_absentOnly(err, app) == err = Null /\ app = Null

\* if (err)
createService_noApplication_errOnly(err, app) == err # Null

\* if (err || !app)
createService_noApplication(err, app) == err # Null \/ app = Null

\* if (!err && !image)
createService_noImage_errIgnored(err, image) == err = Null /\ image = Null

\* if (err || !image)
createService_noImage(err, image) == err # Null \/ image = Null

\* createService(service, cb), up to the call of self.getApplication
createService(r) ==
  /\ Free(r)
  /\ \E service \in ServiceInputs, generated \in GENERATED :
       LET q == Begin("createService", service) IN
       req' = [req EXCEPT ![r] =
         IF ~IsString(service, "name")
           THEN Throw(q, AssertionError("service.name"))
         ELSE IF ~IsString(service, "application_uuid")
           THEN Throw(q, AssertionError("service.application_uuid"))
         ELSE IF ~IsString(service, "image_uuid")
           THEN Throw(q, AssertionError("service.image_uuid"))
         ELSE Call([q EXCEPT !.obj = WithUuid(service, generated)],
                   "getApplication")]
  /\ started' = started + 1
  /\ UNCHANGED <<moray, asm, boot>>

\* the callback of self.getApplication in createService
createService_getApplication(r) ==
  /\ Waiting(r, "createService", "getApplication")
  /\ \E out \in LookupOutcomes(APPLICATIONS, req[r].obj.application_uuid) :
       req' = [req EXCEPT ![r] =
         IF createService_noApplication(out.err, out.value)
           THEN Callback(Reply(@, out), Error("application %s doesn't exist",
                                  @.obj.application_uuid), @.obj)
           ELSE Call(Reply(@, out), "getImage")]
  /\ UNCHANGED <<moray, started, asm, boot>>

\* the callback of imgapi.getImage in createService
createService_getImage(r) ==
  /\ Waiting(r, "createService", "getImage")
  /\ \E out \in GetImageOutcomes(req[r].obj.image_uuid) :
       req' = [req EXCEPT ![r] =
         IF createService_noImage(out.err, out.value)
           THEN Callback(Reply(@, out), Error("image %s doesn't exist",
                                  @.obj.image_uuid), @.obj)
           ELSE Call(Reply(@, out), "putObject")]
  /\ UNCHANGED <<moray, started, asm, boot>>

\* the callback of moray.putObject in createService
createService_putObject(r) ==
  /\ Waiting(r, "createService", "putObject")
  /\ \E out \in MorayOutcomes :
       /\ moray' = IF out.err = Null
                     THEN putObject(SERVICES, req[r].obj.uuid, req[r].obj)
                     ELSE moray
       /\ req' = [req EXCEPT ![r] = Callback(Reply(@, out), out.err, @.obj)]
  /\ UNCHANGED <<started, asm, boot>>

\* listServices(cb)
listServices(r) ==
  /\ Free(r)
  /\ req' = [req EXCEPT ![r] = Call(Begin("listServices", Null), "listObjects")]
  /\ started' = started + 1
  /\ UNCHANGED <<moray, asm, boot>>

\* getService(uuid, cb)
getService(r) ==
  /\ Free(r)
  /\ \E uuid \in KEYS :
       req' = [req EXCEPT ![r] =
         Call(Begin("getService", [uuid |-> uuid]), "getObject")]
  /\ started' = started + 1
  /\ UNCHANGED <<moray, asm, boot>>

\* delService(uuid, cb)
delService(r) ==
  /\ Free(r)
  /\ \E uuid \in KEYS :
       req' = [req EXCEPT ![r] =
         Call(Begin("delService", [uuid |-> uuid]), "delObject")]
  /\ started' = started + 1
  /\ UNCHANGED <<moray, asm, boot>>

\* ------------------------------------------------------------ instances

\* if (err || !svc)
createInstance_noService(err, svc) == err # Null \/ svc = Null

\* createInstance(instance, cb), up to the call of self.getService
createInstance(r) ==
  /\ Free(r)
  /\ \E instance \in InstanceInputs, generated \in GENERATED :
       LET q == Begin("createInstance", instance) IN
       req' = [req EXCEPT ![r] =
         IF ~IsString(instance, "name")
           THEN Throw(q, AssertionError("instance.name"))
         ELSE IF ~IsString(instance, "service_uuid")
           THEN Throw(q, AssertionError("instance.service_uuid"))
         ELSE Call([q EXCEPT !.obj = WithUuid(instance, generated)],
                   "getService")]
  /\ started' = started + 1
  /\ UNCHANGED <<moray, asm, boot>>

\* the callback of self.getService in createInstance
createInstance_getService(r) ==
  /\ Waiting(r, "createInstance", "getService")
  /\ \E out \in LookupOutcomes(SERVICES, req[r].obj.service_uuid) :
       req' = [req EXCEPT ![r] =
         IF createInstance_noService(out.err, out.value)
           THEN Callback(Reply(@, out), Error("service %s doesn't exist",
                                  @.obj.service_uuid), @.obj)
           ELSE Call(Reply(@, out), "putObject")]
  /\ UNCHANGED <<moray, started, asm, boot>>

\* the callback of moray.putObject in createInstance
createInstance_putObject(r) ==
  /\ Waiting(r, "createInstance", "putObject")
  /\ \E out \in MorayOutcomes :
       /\ moray' = IF out.err = Null
                     THEN putObject(INSTANCES, req[r].obj.uuid, req[r].obj)
                     ELSE moray
       /\ req' = [req EXCEPT ![r] = Callback(Reply(@, out), out.err, @.obj)]
  /\ UNCHANGED <<started, asm, boot>>

\* listInstances(cb)
listInstances(r) ==
  /\ Free(r)
  /\ req' = [req EXCEPT ![r] = Call(Begin("listInstances", Null), "listObjects")]
  /\ started' = started + 1
  /\ UNCHANGED <<moray, asm, boot>>

\* getInstance(uuid, cb)
getInstance(r) ==
  /\ Free(r)
  /\ \E uuid \in KEYS :
       req' = [req EXCEPT ![r] =
         Call(Begin("getInstance", [uuid |-> uuid]), "getObject")]
  /\ started' = started + 1
  /\ UNCHANGED <<moray, asm, boot>>

\* delInstance(uuid, cb)
delInstance(r) ==
  /\ Free(r)
  /\ \E uuid \in KEYS :
       req' = [req EXCEPT ![r] =
         Call(Begin("delInstance", [uuid |-> uuid]), "delObject")]
  /\ started' = started + 1
  /\ UNCHANGED <<moray, asm, boot>>

\* ------------------------------------------- list, get, delete callbacks

\* the bucket the operation passes to listObjects, getObject or delObject
BucketOf(op) ==
  CASE op \in {"listApplications", "getApplication", "delApplication"} -> APPLICATIONS
    [] op \in {"listServices", "getService", "delService"} -> SERVICES
    [] op \in {"listInstances", "getInstance", "delInstance"} -> INSTANCES

\* findObjects' 'error' or 'end' event for a list request: cb(err) or
\* cb(null, objs)
listObjects_end(r) ==
  /\ req[r].op \in {"listApplications", "listServices", "listInstances"}
  /\ req[r].pc = "listObjects"
  /\ \E err \in {Null, MorayError} :
       LET out == [err |-> err,
                   value |-> IF err # Null THEN {}
                             ELSE listObjects(BucketOf(req[r].op))]
       IN  req' = [req EXCEPT ![r] =
             IF out.err # Null
               THEN Callback(Reply(@, out), out.err, Null)
               ELSE Callback(Reply(@, out), Null, out.value)]
  /\ UNCHANGED <<moray, started, asm, boot>>

\* getObject's callback of findObjects for a get request
getObject_end(r) ==
  /\ req[r].op \in {"getApplication", "getService", "getInstance"}
  /\ req[r].pc = "getObject"
  /\ \E out \in LookupOutcomes(BucketOf(req[r].op), req[r].input.uuid) :
       req' = [req EXCEPT ![r] = Callback(Reply(@, out), out.err, out.value)]
  /\ UNCHANGED <<moray, started, asm, boot>>

\* moray.delObject(bucket, key, {}, cb): deleting a key that is not there is
\* not an error
DelObjectOutcomes(bucket, key) == MorayOutcomes

\* the end of moray.delObject, which calls the caller's callback itself
delObject_end(r) ==
  /\ req[r].op \in {"delApplication", "delService", "delInstance"}
  /\ req[r].pc = "delObject"
  /\ \E out \in DelObjectOutcomes(BucketOf(req[r].op), req[r].input.uuid) :
       /\ moray' = IF out.err = Null
                     THEN delObject(BucketOf(req[r].op), req[r].input.uuid)
                     ELSE moray
       /\ req' = [req EXCEPT ![r] = Callback(Reply(@, out), out.err, Null)]
  /\ UNCHANGED <<started, asm, boot>>

\* --------------------------------------------------------------- deploy

\* if (obj.params): a map, even an empty one, is truthy
HasParams(obj) == "params" \in DOMAIN obj

\* a copy that keeps the value a key already has
CopyParams_keepsFirst(params, obj) ==
  IF "params" \in DOMAIN obj THEN Merge(obj.params, params) ELSE params

\* Object.keys(obj.params).forEach(function (key) { params[key] = ... })
CopyParams(params, obj) ==
  IF HasParams(obj) THEN Merge(params, obj.params) ELSE params

\* assembleParams that sets the derived fields before it copies the params
assembleParams_derivedFirst(app, svc, inst) ==
  LET derived == [owner_uuid |-> app.owner_uuid, image_uuid |-> svc.image_uuid,
                  uuid |-> inst.uuid]
  IN  CopyParams(CopyParams(CopyParams(derived, app), svc), inst)

\* assembleParams(app, svc, inst), when it returns
assembleParams(app, svc, inst) ==
  LET merged == CopyParams(CopyParams(CopyParams(Null, app), svc), inst)
      owned == SetField(merged, "owner_uuid", app.owner_uuid)
      imaged == SetField(owned, "image_uuid", svc.image_uuid)
  IN  SetField(imaged, "uuid", inst.uuid)

\* what assembleParams throws instead of returning, or Null
assembleParams_throws(app, svc, inst) ==
  IF app = Null THEN TypeError("app.params")
  ELSE IF svc = Null THEN TypeError("svc.params")
  ELSE IF ~IsString(app, "owner_uuid") THEN AssertionError("app.owner_uuid")
  ELSE IF ~IsString(svc, "image_uuid") THEN AssertionError("svc.image_uuid")
  ELSE IF ~IsString(inst, "uuid") THEN AssertionError("inst.uuid")
  ELSE Null

BRAND == "joyent-minimal"
RAM == 256
NETWORKS == <<"cda22a50-15bd-43cf-b379-be0cbac60cb4">>
SERVER_UUID == "44454c4c-4800-1034-804a-b2c04f354d31"

\* deployZone that passes the fixed parameters alone
deployZone_fixedOnly(params) ==
  [brand |-> BRAND, ram |-> RAM, networks |-> NETWORKS,
   server_uuid |-> SERVER_UUID]

\* deployZone that sets a fixed parameter only where params has none
deployZone_keepsGiven(params) ==
  Merge([brand |-> BRAND, ram |-> RAM, networks |-> NETWORKS,
         server_uuid |-> SERVER_UUID], params)

\* deployZone(params, cb), up to the call of vmapi.createVm: the parameters
\* it passes
deployZone(params) ==
  SetField(SetField(SetField(SetField(params,
    "brand", BRAND), "ram", RAM), "networks", NETWORKS),
    "server_uuid", SERVER_UUID)

\* vmapi.createVm(params, cb)
CreateVmOutcomes ==
  { [err |-> Null, value |-> [vm_uuid |-> "vm"]],
    [err |-> VmapiError, value |-> Null] }

\* the instance objects a caller passes to deployInstance
DeployInputs == { i \in InstanceInputs : "name" \in DOMAIN i }

\* deployInstance(instance, cb), up to the call of self.getService
deployInstance(r) ==
  /\ Free(r)
  /\ \E instance \in DeployInputs :
       LET q == Begin("deployInstance", instance) IN
       req' = [req EXCEPT ![r] =
         IF ~IsString(instance, "service_uuid")
           THEN Throw(q, AssertionError("instance.service_uuid"))
           ELSE Call(q, "getService")]
  /\ started' = started + 1
  /\ UNCHANGED <<moray, asm, boot>>

\* the callback of self.getService in deployInstance: after subcb(suberr) it
\* goes on to read result.application_uuid
deployInstance_getService(r) ==
  /\ Waiting(r, "deployInstance", "getService")
  /\ \E out \in LookupOutcomes(SERVICES, req[r].obj.service_uuid) :
       req' = [req EXCEPT ![r] =
         LET reported == IF out.err # Null
                           THEN Callback(Reply(@, out), out.err, Null)
                           ELSE Reply(@, out)
             q == [reported EXCEPT !.service = out.value]
         IN  IF out.value = Null
               THEN Throw(q, TypeError("service.application_uuid"))
             ELSE IF ~IsString(out.value, "application_uuid")
               THEN Throw(q, AssertionError("service.application_uuid"))
             ELSE Call(q, "getApplication")]
  /\ UNCHANGED <<moray, started, asm, boot>>

\* the third function of the waterfall: assembleParams, then deployZone
deployInstance_assemble(q) ==
  LET called == [q EXCEPT !.calls = Append(@, "assembleParams")]
      error == assembleParams_throws(q.application, q.service, q.obj)
  IN  IF error # Null
        THEN Throw(called, error)
        ELSE Call([called EXCEPT
                     !.calls = Append(@, "deployZone"),
                     !.params = deployZone(
                        assembleParams(q.application, q.service, q.obj))],
                  "createVm")

\* the callback of self.getApplication in deployInstance: after subcb(suberr)
\* it goes on to subcb(null), which starts the third function
deployInstance_getApplication(r) ==
  /\ Waiting(r, "deployInstance", "getApplication")
  /\ \E out \in LookupOutcomes(APPLICATIONS, req[r].service.application_uuid) :
       req' = [req EXCEPT ![r] =
         LET reported == IF out.err # Null
                           THEN Callback(Reply(@, out), out.err, Null)
                           ELSE Reply(@, out)
         IN  deployInstance_assemble([reported EXCEPT !.application = out.value])]
  /\ UNCHANGED <<moray, started, asm, boot>>

\* the callback of vmapi.createVm in deployZone
deployInstance_createVm(r) ==
  /\ Waiting(r, "deployInstance", "createVm")
  /\ \E out \in CreateVmOutcomes :
       req' = [req EXCEPT ![r] = Callback(Reply(@, out), out.err, Null)]
  /\ UNCHANGED <<moray, started, asm, boot>>

\* -------------------------------------------------------- specification

Init ==
  /\ moray = [b \in Buckets |-> Null]
  /\ req = [r \in Reqs |-> Idle]
  /\ started = 0
  /\ asm = Null
  /\ boot = Null

Next ==
  \E r \in Reqs :
    \/ createApplication(r)
    \/ createApplication_validOwnerUUID(r)
    \/ createApplication_putObject(r)
    \/ listApplications(r)
    \/ getApplication(r)
    \/ delApplication(r)
    \/ createService(r)
    \/ createService_getApplication(r)
    \/ createService_getImage(r)
    \/ createService_putObject(r)
    \/ listServices(r)
    \/ getService(r)
    \/ delService(r)
    \/ createInstance(r)
    \/ createInstance_getService(r)
    \/ createInstance_putObject(r)
    \/ listInstances(r)
    \/ getInstance(r)
    \/ delInstance(r)
    \/ listObjects_end(r)
    \/ getObject_end(r)
    \/ delObject_end(r)
    \/ deployInstance(r)
    \/ deployInstance_getService(r)
    \/ deployInstance_getApplication(r)
    \/ deployInstance_createVm(r)

Spec == Init /\ [][Next]_vars

\* ------------------------------------ assembleParams on its own inputs

\* the keys of user parameters, and the keys assembleParams sets itself
UserKeys == {"a", "b", "c", "d"}
DerivedKeys == {"owner_uuid", "image_uuid", "uuid"}

\* the params maps of one level, which writes the value v under its keys
LevelParams(v) ==
  { [k \in user \cup derived |-> v] :
      user \in SUBSET UserKeys, derived \in {{}, DerivedKeys} }

\* a record without params, and with each params map of its level
WithParams(objs, v) ==
  objs \cup { SetField(o, "params", p) : o \in objs, p \in LevelParams(v) }

AssembleApplications ==
  WithParams({ a \in ApplicationInputs :
                 {"name", "owner_uuid", "uuid"} \subseteq DOMAIN a }, "1")

AssembleServices ==
  WithParams({ s \in ServiceInputs :
                 {"name", "application_uuid", "image_uuid", "uuid"}
                   \subseteq DOMAIN s }, "2")

AssembleInstances ==
  WithParams({ i \in InstanceInputs :
                 {"name", "service_uuid", "uuid"} \subseteq DOMAIN i }, "3")
    \cup { i \in InstanceInputs : {"name", "service_uuid"} = DOMAIN i }

InitAssemble ==
  /\ moray = [b \in Buckets |-> Null]
  /\ req = [r \in Reqs |-> Idle]
  /\ started = 0
  /\ boot = Null
  /\ \E app \in AssembleApplications, svc \in AssembleServices,
        inst \in AssembleInstances :
       asm = [pc |-> "assembleParams", application |-> app, service |-> svc,
              instance |-> inst, params |-> Null, thrown |-> Null]

\* var params = assembleParams.call(self, application, service, instance)
assemble ==
  /\ asm.pc = "assembleParams"
  /\ LET error == assembleParams_throws(asm.application, asm.service, asm.instance)
     IN  asm' = IF error # Null
                  THEN [asm EXCEPT !.pc = "threw", !.thrown = error]
                  ELSE [asm EXCEPT !.pc = "deployZone",
                          !.params = assembleParams(asm.application,
                                        asm.service, asm.instance)]
  /\ UNCHANGED <<moray, req, started, boot>>

\* deployZone.call(self, params, subcb), up to the call of vmapi.createVm
provision ==
  /\ asm.pc = "deployZone"
  /\ asm' = [asm EXCEPT !.pc = "createVm", !.params = deployZone(@)]
  /\ UNCHANGED <<moray, req, started, boot>>

NextAssemble == assemble \/ provision

SpecAssemble == InitAssemble /\ [][NextAssemble]_vars

\* ------------------- deployZone on params that name its fixed parameters

\* the keys deployZone sets itself
FixedKeys == {"brand", "ram", "networks", "server_uuid"}

\* values a caller may give under those keys, and under a key of its own
GivenParams(v) ==
  [brand |-> "kvm", ram |-> 512, networks |-> <<"admin">>, server_uuid |-> v,
   a |-> v]

\* the params maps of one level: its own key and any of the fixed keys
ProvisionParams(v) ==
  { Restrict(GivenParams(v), fixed \cup {"a"}) : fixed \in SUBSET FixedKeys }

\* a record without params, and with each of these params maps
WithProvisionParams(objs, v) ==
  objs \cup { SetField(o, "params", p) : o \in objs, p \in ProvisionParams(v) }

InitProvision ==
  /\ moray = [b \in Buckets |-> Null]
  /\ req = [r \in Reqs |-> Idle]
  /\ started = 0
  /\ boot = Null
  /\ \E app \in WithProvisionParams(
                  { a \in ApplicationInputs :
                      {"name", "owner_uuid", "uuid"} \subseteq DOMAIN a }, "1"),
        svc \in WithProvisionParams(
                  { s \in ServiceInputs :
                      {"name", "application_uuid", "image_uuid", "uuid"}
                        \subseteq DOMAIN s }, "2"),
        inst \in WithProvisionParams(
                  { i \in InstanceInputs :
                      {"name", "service_uuid", "uuid"} \subseteq DOMAIN i }, "3") :
       asm = [pc |-> "assembleParams", application |-> app, service |-> svc,
              instance |-> inst, params |-> Null, thrown |-> Null]

SpecProvision == InitProvision /\ [][NextAssemble]_vars

\* ------------------------------------------------ initBuckets at startup

BucketNotFoundError == [name |-> "BucketNotFoundError"]

\* moray.getBucket(name, cb): the bucket, or BucketNotFoundError when there is
\* none, or another error
GetBucketOutcomes(name) ==
  IF name \in DOMAIN moray
    THEN { [err |-> Null, value |-> [name |-> name]],
           [err |-> MorayError, value |-> Null] }
    ELSE { [err |-> BucketNotFoundError, value |-> Null],
           [err |-> MorayError, value |-> Null] }

\* moray.createBucket(name, cfg, cb)
CreateBucketOutcomes(name) == MorayOutcomes

\* the bucket is there after a createBucket that succeeded
createdBucket(name) ==
  [b \in DOMAIN moray \cup {name} |-> IF b \in DOMAIN moray THEN moray[b] ELSE Null]

\* a createBucket that never takes the bucket to be there
createBucket_exists_never(err) == FALSE

\* if (!err) return (cb(null))
createBucket_exists(err) == err = Null

\* if (err && err.name !== 'BucketNotFoundError') return (cb(err))
createBucket_fatal(err) == err # Null /\ err.name # "BucketNotFoundError"

\* the err vasync.forEachParallel hands its callback: null when no func
\* failed, else one error that holds the errors of the funcs
MultiError(errors) ==
  IF errors = {} THEN Null ELSE [name |-> "MultiError", ase_errors |-> errors]

\* no initBuckets has been called
Booting ==
  [run |-> 0, pc |-> [b \in Buckets |-> "idle"],
   errs |-> [b \in Buckets |-> Null], calls |-> {}, replies |-> {},
   cbs |-> <<>>]

\* a call of moray made for a bucket, and whether the bucket was there then
\* (the calls and the replies of the runs are kept as sets)
BucketCall(fn, bucket) ==
  [run |-> boot.run, fn |-> fn, bucket |-> bucket,
   existed |-> bucket \in DOMAIN moray]

\* moray calls createBucket back for a bucket: the err of the callback
BucketReply(q, fn, bucket, err) ==
  [q EXCEPT !.replies = @ \cup
     {[run |-> q.run, fn |-> fn, bucket |-> bucket, err |-> err]}]

\* a forEachParallel that calls back whenever a func has ended
createBucket_cb_eager(q, bucket, err) ==
  LET ended == [q EXCEPT !.pc[bucket] = "done", !.errs[bucket] = err]
  IN  [ended EXCEPT !.cbs = Append(@,
         [run |-> q.run,
          err |-> MultiError({ ended.errs[b] : b \in Buckets } \ {Null})])]

\* createBucket's cb(err) for one bucket; forEachParallel calls initBuckets'
\* callback when the last of the three has ended
createBucket_cb(q, bucket, err) ==
  LET ended == [q EXCEPT !.pc[bucket] = "done", !.errs[bucket] = err]
  IN  IF \A b \in Buckets : ended.pc[b] = "done"
        THEN [ended EXCEPT !.cbs = Append(@,
                [run |-> q.run,
                 err |-> MultiError({ ended.errs[b] : b \in Buckets } \ {Null})])]
        ELSE ended

\* initBuckets(cb): forEachParallel calls createBucket for the three buckets,
\* each up to its call of moray.getBucket
initBuckets ==
  /\ boot.run < MaxRuns
  /\ \A b \in Buckets : boot.pc[b] \in {"idle", "done"}
  /\ LET q == [boot EXCEPT !.run = @ + 1] IN
     boot' = [q EXCEPT
       !.pc = [b \in Buckets |-> "getBucket"],
       !.errs = [b \in Buckets |-> Null],
       !.calls = @ \cup
         { [run |-> q.run, fn |-> "getBucket", bucket |-> b,
            existed |-> b \in DOMAIN moray] : b \in Buckets }]
  /\ UNCHANGED <<moray, req, started, asm>>

\* the callback of moray.getBucket in createBucket
createBucket_getBucket(bucket) ==
  /\ boot.pc[bucket] = "getBucket"
  /\ \E out \in GetBucketOutcomes(bucket) :
       LET q == BucketReply(boot, "getBucket", bucket, out.err) IN
       boot' =
         IF createBucket_exists(out.err)
           THEN createBucket_cb(q, bucket, Null)
         ELSE IF createBucket_fatal(out.err)
           THEN createBucket_cb(q, bucket, out.err)
         ELSE [q EXCEPT !.pc[bucket] = "createBucket",
                 !.calls = @ \cup {BucketCall("createBucket", bucket)}]
  /\ UNCHANGED <<moray, req, started, asm>>

\* the callback of moray.createBucket in createBucket
createBucket_createBucket(bucket) ==
  /\ boot.pc[bucket] = "createBucket"
  /\ \E out \in CreateBucketOutcomes(bucket) :
       /\ moray' = IF out.err = Null THEN createdBucket(bucket) ELSE moray
       /\ boot' = createBucket_cb(
            BucketReply(boot, "createBucket", bucket, out.err), bucket,
            IF out.err # Null
              THEN Error("failed to create bucket", Null)
              ELSE Null)
  /\ UNCHANGED <<req, started, asm>>

\* moray before any initBuckets: any of the three buckets may be there
InitBoot ==
  /\ \E existing \in SUBSET Buckets : moray = [b \in existing |-> Null]
  /\ req = [r \in Reqs |-> Idle]
  /\ started = 0
  /\ asm = Null
  /\ boot = Booting

NextBoot ==
  \/ initBuckets
  \/ \E bucket \in Buckets :
       \/ createBucket_getBucket(bucket)
       \/ createBucket_createBucket(bucket)

SpecBoot == InitBoot /\ [][NextBoot]_vars

\* ---------------------------------------------------- reading the state

Range(seq) == { seq[i] : i \in DOMAIN seq }

Count(seq, x) == Cardinality({ i \in DOMAIN seq : seq[i] = x })

\* a record with this uuid is in the bucket
Present(bucket, uuid) ==
  \E k \in DOMAIN moray[bucket] : moray[bucket][k].uuid = uuid

\* the arguments of the callback the request received last
LastReply(q) == q.replies[Len(q.replies)]

\* in this step, request r receives the callback of the call fn it waits for
Step(r, op, fn) == Waiting(r, op, fn) /\ req'[r] # req[r]

\* the request has ended by calling its caller's callback once, with an error
FailedOnce(q) ==
  /\ q.pc = "done"
  /\ Len(q.cbs) = 1
  /\ q.cbs[1].err # Null

\* --------------------------------------------------------------- claims

\* C1: when createService looks its application up and no application with
\* service.application_uuid is in storage, it calls its caller back once with
\* the error that the application does not exist, it has not called and will
\* not call putObject, and storage is as it was
C1_Step(r) ==
  ( /\ Step(r, "createService", "getApplication")
    /\ ~Present(APPLICATIONS, req[r].obj.application_uuid) )
  => /\ FailedOnce(req'[r])
     /\ req'[r].cbs[1].err =
          Error("application %s doesn't exist", req[r].obj.application_uuid)
     /\ "putObject" \notin Range(req'[r].calls)
     /\ moray' = moray

\* C1: every step of every request keeps to it: a createService without its
\* application reports the error and writes nothing
C1_NoApplicationNoWrite == [][\A r \in Reqs : C1_Step(r)]_vars

\* a createService that failed on its application, its record not stored
C1_Witness ==
  \E r \in Reqs :
    /\ req[r].op = "createService"
    /\ req[r].pc = "done"
    /\ req[r].calls = <<"getApplication">>
    /\ req[r].replies = <<[err |-> Null, value |-> Null]>>
    /\ req[r].cbs[1].err # Null
    /\ ~Present(SERVICES, req[r].obj.uuid)

\* C2: when the image lookup of createService returns no image, or an error,
\* createService calls its caller back once with an error, does not call
\* putObject, and storage is as it was
C2_Step(r) ==
  ( /\ Step(r, "createService", "getImage")
    /\ \/ LastReply(req'[r]).err # Null
       \/ LastReply(req'[r]).value = Null )
  => /\ FailedOnce(req'[r])
     /\ req'[r].cbs[1].err =
          Error("image %s doesn't exist", req[r].obj.image_uuid)
     /\ "putObject" \notin Range(req'[r].calls)
     /\ moray' = moray

\* C2: every step of every request keeps to it: a createService without its
\* image, or whose image lookup failed, reports an error and writes nothing
C2_NoImageNoWrite == [][\A r \in Reqs : C2_Step(r)]_vars

\* a createService that failed because the image lookup returned an error
C2_Witness ==
  \E r \in Reqs :
    /\ req[r].op = "createService"
    /\ req[r].pc = "done"
    /\ req[r].calls = <<"getApplication", "getImage">>
    /\ LastReply(req[r]).err = ImgapiError
    /\ req[r].cbs[1].err # Null

\* C3: when ufds.getUser fails, for whatever reason, createApplication calls
\* its caller back once with the 'invalid user' error (not the error of the
\* lookup), does not call putObject, and storage is as it was
C3_Step(r) ==
  ( /\ Step(r, "createApplication", "getUser")
    /\ LastReply(req'[r]).err # Null )
  => /\ FailedOnce(req'[r])
     /\ req'[r].cbs[1].err = Error("invalid user: %s", req[r].obj.owner_uuid)
     /\ req'[r].cbs[1].err # LastReply(req'[r]).err
     /\ "putObject" \notin Range(req'[r].calls)
     /\ moray' = moray

\* C3: every step of every request keeps to it: a createApplication whose
\* owner lookup failed reports 'invalid user' and writes nothing
C3_InvalidOwnerNoWrite == [][\A r \in Reqs : C3_Step(r)]_vars

\* a createApplication that failed because ufds could not be reached
C3_Witness ==
  \E r \in Reqs :
    /\ req[r].op = "createApplication"
    /\ req[r].pc = "done"
    /\ req[r].calls = <<"getUser">>
    /\ LastReply(req[r]).err = UfdsError
    /\ req[r].cbs[1].err = Error("invalid user: %s", req[r].obj.owner_uuid)

CreateOps == {"createApplication", "createService", "createInstance"}
GetOps == {"getApplication", "getService", "getInstance"}
ListOps == {"listApplications", "listServices", "listInstances"}
DelOps == {"delApplication", "delService", "delInstance"}

\* the bucket of each entity kind
KindBucket(op) ==
  CASE op \in {"createApplication", "listApplications", "getApplication",
               "delApplication"} -> APPLICATIONS
    [] op \in {"createService", "listServices", "getService",
               "delService"} -> SERVICES
    [] op \in {"createInstance", "listInstances", "getInstance",
               "delInstance"} -> INSTANCES
    [] OTHER -> "none"

\* in this step, request r receives the callback of its storage call fn
StorageStep(r, ops, fn) ==
  /\ req[r].op \in ops
  /\ req[r].pc = fn
  /\ req'[r] # req[r]

\* C4: a create whose checks passed and whose putObject succeeded stores, under
\* the record's uuid, exactly the caller's fields plus uuid (the caller's uuid
\* when given, a generated one otherwise) and hands that record to its caller
C4_Create(r) ==
  ( /\ StorageStep(r, CreateOps, "putObject")
    /\ LastReply(req'[r]).err = Null )
  => LET input == req[r].input
         rec == req'[r].obj
         bucket == KindBucket(req[r].op)
     IN  /\ DOMAIN rec = DOMAIN input \cup {"uuid"}
         /\ \A f \in DOMAIN input : rec[f] = input[f]
         /\ "uuid" \notin DOMAIN input => rec.uuid \in GENERATED
         /\ rec.uuid \in DOMAIN moray'[bucket]
         /\ moray'[bucket][rec.uuid] = rec
         /\ req'[r].cbs = <<[err |-> Null, value |-> rec]>>

\* C4: a stored record changes or goes only by a delete or a create of its
\* own identifier in its own bucket
C4_Kept(bucket, key) ==
  ( /\ key \in DOMAIN moray[bucket]
    /\ \/ key \notin DOMAIN moray'[bucket]
       \/ moray'[bucket][key] # moray[bucket][key] )
  => \E r \in Reqs :
       /\ KindBucket(req[r].op) = bucket
       /\ \/ /\ StorageStep(r, DelOps, "delObject")
             /\ req[r].input.uuid = key
          \/ /\ StorageStep(r, CreateOps, "putObject")
             /\ req[r].obj.uuid = key

\* C4: a get that storage answers returns the record stored under the
\* identifier, and a list that storage answers returns every stored record
C4_Read(r) ==
  LET bucket == KindBucket(req[r].op) IN
  /\ ( /\ StorageStep(r, GetOps, "getObject")
       /\ LastReply(req'[r]).err = Null
       /\ req[r].input.uuid \in DOMAIN moray[bucket] )
     => req'[r].cbs =
          <<[err |-> Null, value |-> moray[bucket][req[r].input.uuid]]>>
  /\ ( /\ StorageStep(r, ListOps, "listObjects")
       /\ LastReply(req'[r]).err = Null )
     => /\ req'[r].cbs[1].err = Null
        /\ req'[r].cbs[1].value =
             { moray[bucket][k] : k \in DOMAIN moray[bucket] }

\* C4: a create stores exactly the record it hands back, the record stays as
\* stored until a delete or a create of its identifier, and get and list
\* return what is stored
C4_CreateThenGet ==
  [][ /\ \A r \in Reqs : C4_Create(r) /\ C4_Read(r)
      /\ \A bucket \in Buckets, key \in KEYS : C4_Kept(bucket, key) ]_vars

\* a create without uuid has ended well, its record is stored under the
\* generated uuid, and a get of that uuid has returned the record
C4_Witness ==
  \E r \in Reqs, g \in Reqs :
    /\ req[r].op = "createService"
    /\ req[r].pc = "done"
    /\ "uuid" \notin DOMAIN req[r].input
    /\ req[r].cbs = <<[err |-> Null, value |-> req[r].obj]>>
    /\ req[g].op = "getService"
    /\ req[g].pc = "done"
    /\ req[g].input.uuid = req[r].obj.uuid
    /\ req[g].cbs = <<[err |-> Null, value |-> req[r].obj]>>
    /\ moray[SERVICES][req[r].obj.uuid] = req[r].obj

\* C5: a deployInstance whose service lookup found no service calls its caller
\* back once with an error naming the service, and calls neither
\* getApplication, nor assembleParams, nor deployZone and vmapi.createVm
C5_ReportsMissingService ==
  \A r \in Reqs :
    ( /\ req[r].op = "deployInstance"
      /\ Len(req[r].replies) >= 1
      /\ req[r].replies[1] = [err |-> Null, value |-> Null] )
    => /\ FailedOnce(req[r])
       /\ "arg" \in DOMAIN req[r].cbs[1].err
       /\ req[r].cbs[1].err.arg = req[r].obj.service_uuid
       /\ req[r].calls = <<"getService">>

\* C6: the map assembleParams returns holds, under every key other than the
\* three derived ones, the value of the highest level that defines the key
\* (instance over service over application; a record without params defines
\* none), and it has no key that is neither defined by a level nor derived
ParamsOrEmpty(obj) == IF "params" \in DOMAIN obj THEN obj.params ELSE Null

Defined(key, app, svc, inst) ==
  \/ key \in DOMAIN ParamsOrEmpty(app)
  \/ key \in DOMAIN ParamsOrEmpty(svc)
  \/ key \in DOMAIN ParamsOrEmpty(inst)

Highest(key, app, svc, inst) ==
  IF key \in DOMAIN ParamsOrEmpty(inst) THEN ParamsOrEmpty(inst)[key]
  ELSE IF key \in DOMAIN ParamsOrEmpty(svc) THEN ParamsOrEmpty(svc)[key]
  ELSE ParamsOrEmpty(app)[key]

\* C6: under every key but the three derived ones, the assembled map holds
\* the value of the highest level (instance, service, application) that
\* defines the key, and holds no key that no level defines
C6_Precedence ==
  asm.pc = "deployZone" =>
    /\ \A key \in DOMAIN asm.params \ DerivedKeys :
         /\ Defined(key, asm.application, asm.service, asm.instance)
         /\ asm.params[key] =
              Highest(key, asm.application, asm.service, asm.instance)
    /\ \A key \in UserKeys :
         Defined(key, asm.application, asm.service, asm.instance)
           => key \in DOMAIN asm.params
    /\ DerivedKeys \subseteq DOMAIN asm.params

\* app {a:1,b:1}, service {b:2,c:2}, instance {c:3,d:3} give a:1,b:2,c:3,d:3
C6_Witness ==
  /\ asm.pc = "deployZone"
  /\ ParamsOrEmpty(asm.application) = [a |-> "1", b |-> "1"]
  /\ ParamsOrEmpty(asm.service) = [b |-> "2", c |-> "2"]
  /\ ParamsOrEmpty(asm.instance) = [c |-> "3", d |-> "3"]
  /\ Restrict(asm.params, UserKeys) =
       [a |-> "1", b |-> "2", c |-> "3", d |-> "3"]

\* C7: the map assembleParams returns has the application's owner_uuid, the
\* service's image_uuid and the instance's uuid, whatever the params say
C7_DerivedFields ==
  asm.pc = "deployZone" =>
    /\ DerivedKeys \subseteq DOMAIN asm.params
    /\ asm.params.owner_uuid = asm.application.owner_uuid
    /\ asm.params.image_uuid = asm.service.image_uuid
    /\ asm.params.uuid = asm.instance.uuid

\* assembleParams has returned for params that define the three keys at
\* every level
C7_Witness ==
  /\ asm.pc = "deployZone"
  /\ DerivedKeys \subseteq DOMAIN ParamsOrEmpty(asm.application)
  /\ DerivedKeys \subseteq DOMAIN ParamsOrEmpty(asm.service)
  /\ DerivedKeys \subseteq DOMAIN ParamsOrEmpty(asm.instance)
  /\ asm.params.owner_uuid = asm.application.owner_uuid
  /\ ParamsOrEmpty(asm.instance).owner_uuid # asm.application.owner_uuid

\* C8: a deployInstance that finds the service of its instance and the
\* application of that service in storage issues one vmapi.createVm, with the
\* stored application's owner_uuid, the stored service's image_uuid and the
\* instance's uuid, issues no other, and calls its caller back once without
\* error when createVm succeeds
C8_Resolve(r) ==
  ( /\ Step(r, "deployInstance", "getService")
    /\ LastReply(req'[r]).err = Null
    /\ req[r].obj.service_uuid \in DOMAIN moray[SERVICES] )
  => /\ req'[r].service = moray[SERVICES][req[r].obj.service_uuid]
     /\ req'[r].calls = <<"getService", "getApplication">>
     /\ req'[r].cbs = <<>>

C8_Provision(r) ==
  ( /\ Step(r, "deployInstance", "getApplication")
    /\ LastReply(req'[r]).err = Null
    /\ req[r].service.application_uuid \in DOMAIN moray[APPLICATIONS]
    /\ "uuid" \in DOMAIN req[r].obj )
  => LET app == moray[APPLICATIONS][req[r].service.application_uuid]
         sent == req'[r].params
     IN  /\ req'[r].pc = "createVm"
         /\ Count(req'[r].calls, "createVm") = 1
         /\ req'[r].cbs = <<>>
         /\ {"owner_uuid", "image_uuid", "uuid"} \subseteq DOMAIN sent
         /\ sent.owner_uuid = app.owner_uuid
         /\ sent.image_uuid = req[r].service.image_uuid
         /\ sent.uuid = req[r].obj.uuid

C8_Report(r) ==
  Step(r, "deployInstance", "createVm")
  => /\ req'[r].calls = req[r].calls
     /\ req'[r].params = req[r].params
     /\ Count(req'[r].calls, "createVm") = 1
     /\ req'[r].pc = "done"
     /\ LastReply(req'[r]).err = Null
          => req'[r].cbs = <<[err |-> Null, value |-> Null]>>

\* C8: every step of a deployInstance keeps to it: both lookups, then one
\* createVm with the assembled payload, then one callback without error
C8_DeployProvisionsOnce ==
  [][\A r \in Reqs : C8_Resolve(r) /\ C8_Provision(r) /\ C8_Report(r)]_vars

\* the instance, its service and the application of the service are stored,
\* and a deploy of the instance has ended well after one createVm
C8_Witness ==
  \E r \in Reqs :
    /\ req[r].op = "deployInstance"
    /\ req[r].pc = "done"
    /\ req[r].cbs = <<[err |-> Null, value |-> Null]>>
    /\ Count(req[r].calls, "createVm") = 1
    /\ req[r].obj.uuid \in DOMAIN moray[INSTANCES]
    /\ moray[INSTANCES][req[r].obj.uuid] = req[r].obj
    /\ req[r].obj.service_uuid \in DOMAIN moray[SERVICES]
    /\ moray[SERVICES][req[r].obj.service_uuid] = req[r].service
    /\ req[r].service.application_uuid \in DOMAIN moray[APPLICATIONS]
    /\ moray[APPLICATIONS][req[r].service.application_uuid] = req[r].application
    /\ req[r].params.owner_uuid = req[r].application.owner_uuid
    /\ req[r].params.image_uuid = req[r].service.image_uuid
    /\ req[r].params.uuid = req[r].obj.uuid

\* C9: a delete hands its caller what moray.delObject reports; one that
\* storage carries out leaves no object under the identifier and touches
\* nothing else, so that on an identifier that is not there (a second delete
\* included) it reports no error and storage is as it was
C9_Step(r) ==
  StorageStep(r, DelOps, "delObject")
  => LET bucket == KindBucket(req[r].op)
         key == req[r].input.uuid
         out == LastReply(req'[r])
     IN  /\ req'[r].cbs = <<[err |-> out.err, value |-> Null]>>
         /\ out.err # Null => moray' = moray
         /\ out.err = Null =>
              /\ key \notin DOMAIN moray'[bucket]
              /\ \A b \in Buckets : \A k \in DOMAIN moray[b] :
                   (b # bucket \/ k # key) =>
                     k \in DOMAIN moray'[b] /\ moray'[b][k] = moray[b][k]
              /\ \A b \in Buckets : DOMAIN moray'[b] \subseteq DOMAIN moray[b]
         /\ (~Present(bucket, key) /\ out.err = Null) =>
              /\ moray' = moray
              /\ req'[r].cbs[1].err = Null

C10_Step(r) ==
  ( /\ StorageStep(r, GetOps, "getObject")
    /\ LastReply(req'[r]).err = Null )
  => LET bucket == KindBucket(req[r].op)
         uuid == req[r].input.uuid
         got == req'[r].cbs[1]
     IN  /\ Len(req'[r].cbs) = 1
         /\ got.err = Null
         /\ ~Present(bucket, uuid) => got.value = Null
         /\ Present(bucket, uuid) =>
              /\ got.value # Null
              /\ got.value.uuid = uuid
              /\ got.value \in { moray[bucket][k] : k \in DOMAIN moray[bucket] }

\* C10: every step of every request keeps to it: a get of an identifier that
\* is not there hands back null without error
C10_GetAbsentIsNull == [][\A r \in Reqs : C10_Step(r)]_vars

\* a get of an identifier that is not in a bucket that holds another record
\* has ended with null and no error
C10_Witness ==
  \E r \in Reqs :
    /\ req[r].op \in GetOps
    /\ req[r].pc = "done"
    /\ req[r].cbs = <<[err |-> Null, value |-> Null]>>
    /\ ~Present(KindBucket(req[r].op), req[r].input.uuid)
    /\ DOMAIN moray[KindBucket(req[r].op)] # {}

\* a record with this uuid is in the bucket after the step
PresentAfter(bucket, uuid) ==
  \E k \in DOMAIN moray'[bucket] : moray'[bucket][k].uuid = uuid

\* C11: a delete that storage carried out leaves no record with the
\* identifier in the bucket of its kind
C11_Deleted(r) ==
  ( /\ StorageStep(r, DelOps, "delObject")
    /\ LastReply(req'[r]).err = Null )
  => ~PresentAfter(KindBucket(req[r].op), req[r].input.uuid)

\* C11: an identifier that is not in a bucket comes into it only by the
\* putObject of a create of that kind for that identifier
C11_StaysAbsent(bucket, uuid) ==
  ( /\ ~Present(bucket, uuid)
    /\ PresentAfter(bucket, uuid) )
  => \E r \in Reqs :
       /\ StorageStep(r, CreateOps, "putObject")
       /\ KindBucket(req[r].op) = bucket
       /\ req[r].obj.uuid = uuid
       /\ LastReply(req'[r]).err = Null

\* C11: while the identifier is not in the bucket, a get that storage answers
\* hands back null without error and a list that storage answers holds no
\* record with the identifier
C11_Read(r) ==
  LET bucket == KindBucket(req[r].op) IN
  /\ ( /\ StorageStep(r, GetOps, "getObject")
       /\ LastReply(req'[r]).err = Null
       /\ ~Present(bucket, req[r].input.uuid) )
     => req'[r].cbs = <<[err |-> Null, value |-> Null]>>
  /\ ( /\ StorageStep(r, ListOps, "listObjects")
       /\ LastReply(req'[r]).err = Null )
     => /\ req'[r].cbs[1].err = Null
        /\ \A uuid \in KEYS :
             ~Present(bucket, uuid)
               => \A rec \in req'[r].cbs[1].value : rec.uuid # uuid

\* C11: for each entity kind, after a successful delete of an identifier and
\* until a create stores the identifier again, get of it reports that there
\* is none (null, no error) and list holds no record with it
C11_DeletedStaysGone ==
  [][ /\ \A r \in Reqs : C11_Deleted(r) /\ C11_Read(r)
      /\ \A bucket \in Buckets, uuid \in KEYS : C11_StaysAbsent(bucket, uuid)
    ]_vars

\* an application was created under an identifier and handed to its caller,
\* the identifier is in the bucket no more (only a delete takes it out), and
\* a get of it has ended with null and a list of the bucket without it
C11_Witness ==
  \E r \in Reqs, g \in Reqs :
    /\ req[r].op = "createApplication"
    /\ req[r].cbs = <<[err |-> Null, value |-> req[r].obj]>>
    /\ ~Present(APPLICATIONS, req[r].obj.uuid)
    /\ req[g].op = "getApplication"
    /\ req[g].input.uuid = req[r].obj.uuid
    /\ req[g].cbs = <<[err |-> Null, value |-> Null]>>

\* no call of moray made by initBuckets has failed, but for a getBucket that
\* found no bucket
NoBackendFailure ==
  \A reply \in boot.replies : reply.err \in {Null, BucketNotFoundError}

\* C12: initBuckets called twice in sequence, from any subset of the three
\* buckets being there, never calls createBucket for a bucket that is there,
\* and, when moray fails no call, calls back without error both times, has
\* all three buckets there after each, and creates none the second time
C12_InitBucketsIdempotent ==
  /\ \A call \in boot.calls : call.fn = "createBucket" => ~call.existed
  /\ NoBackendFailure =>
       /\ \A i \in DOMAIN boot.cbs : boot.cbs[i].err = Null
       /\ Len(boot.cbs) >= 1 => DOMAIN moray = Buckets
       /\ \A call \in boot.calls : call.run >= 2 => call.fn = "getBucket"

\* two calls of initBuckets have ended without error, the first having found
\* one bucket and created another, the second having created none
C12_Witness ==
  /\ boot.run = 2
  /\ NoBackendFailure
  /\ boot.cbs = <<[run |-> 1, err |-> Null], [run |-> 2, err |-> Null]>>
  /\ DOMAIN moray = Buckets
  /\ [run |-> 1, fn |-> "createBucket", bucket |-> SERVICES,
      existed |-> FALSE] \in boot.calls
  /\ [run |-> 1, fn |-> "getBucket", bucket |-> APPLICATIONS,
      existed |-> TRUE] \in boot.calls

\* the fields a create requires of its record
Required(op) ==
  CASE op = "createApplication" -> {"name", "owner_uuid"}
    [] op = "createService" -> {"name", "application_uuid", "image_uuid"}
    [] op = "createInstance" -> {"name", "service_uuid"}

\* the name under which a create asserts a field of its record
ArgName(op, field) ==
  CASE op = "createApplication" /\ field = "name" -> "app.name"
    [] op = "createApplication" /\ field = "owner_uuid" -> "app.owner_uuid"
    [] op = "createService" /\ field = "name" -> "service.name"
    [] op = "createService" /\ field = "application_uuid" ->
         "service.application_uuid"
    [] op = "createService" /\ field = "image_uuid" -> "service.image_uuid"
    [] op = "createInstance" /\ field = "name" -> "instance.name"
    [] op = "createInstance" /\ field = "service_uuid" ->
         "instance.service_uuid"

\* C13: a create whose record lacks a required field has been rejected with
\* the assertion error of a missing field, has made and makes no call of
\* ufds, imgapi or moray, and the step that rejects it leaves storage as it
\* was
C13_Step(r) ==
  LET q == req'[r] IN
  ( /\ q.op \in CreateOps
    /\ ~(Required(q.op) \subseteq DOMAIN q.input) )
  => /\ q.pc = "threw"
     /\ q.thrown \in { AssertionError(ArgName(q.op, field)) :
                         field \in Required(q.op) \ DOMAIN q.input }
     /\ q.calls = <<>>
     /\ q.replies = <<>>
     /\ q.obj = q.input
     /\ req[r] # q => moray' = moray

C14_ReportsMissingApplication ==
  \A r \in Reqs :
    ( /\ req[r].op = "deployInstance"
      /\ Len(req[r].replies) >= 2
      /\ req[r].replies[1].err = Null
      /\ req[r].replies[1].value # Null
      /\ req[r].replies[2] = [err |-> Null, value |-> Null] )
    => /\ FailedOnce(req[r])
       /\ "assembleParams" \notin Range(req[r].calls)
       /\ "createVm" \notin Range(req[r].calls)

\* C15: a deployInstance whose service lookup or application lookup returned
\* an error has called its caller back exactly once, with that error, and has
\* started nothing after the lookup that failed
C15_LookupErrorReportedOnce ==
  \A r \in Reqs :
    ( /\ req[r].op = "deployInstance"
      /\ Len(req[r].replies) \in {1, 2}
      /\ LastReply(req[r]).err # Null )
    => /\ req[r].cbs = <<[err |-> LastReply(req[r]).err, value |-> Null]>>
       /\ req[r].calls =
            SubSeq(<<"getService", "getApplication">>, 1, Len(req[r].replies))

\* C16: in the step in which createService stores a service the application
\* its application_uuid names is in storage, and in the step in which
\* createInstance stores an instance the service its service_uuid names is
C16_Step(r) ==
  /\ ( /\ Step(r, "createService", "putObject")
       /\ LastReply(req'[r]).err = Null )
     => /\ Present(APPLICATIONS, req[r].obj.application_uuid)
        /\ PresentAfter(APPLICATIONS, req[r].obj.application_uuid)
  /\ ( /\ Step(r, "createInstance", "putObject")
       /\ LastReply(req'[r]).err = Null )
     => /\ Present(SERVICES, req[r].obj.service_uuid)
        /\ PresentAfter(SERVICES, req[r].obj.service_uuid)

\* C16: the parent of a record is in storage at the step that stores the
\* record, whatever other requests run between the steps of the create
C16_ParentPresentAtStore == [][\A r \in Reqs : C16_Step(r)]_vars

\* the collaborator calls of an operation, in the order of its waterfall
Order(op) ==
  CASE op = "createApplication" -> <<"getUser", "putObject">>
    [] op = "createService" -> <<"getApplication", "getImage", "putObject">>
    [] op = "createInstance" -> <<"getService", "putObject">>
    [] op = "deployInstance" -> <<"getService", "getApplication", "createVm">>

IsCollaborator(fn) == fn \notin {"assembleParams", "deployZone"}

\* the collaborator calls the request has made
Made(q) == SelectSeq(q.calls, IsCollaborator)

Ended(q) == q.pc \in {"idle", "done", "threw"}

\* C17: the collaborator calls a create or a deploy has made are the first
\* ones of its stage order, with no reply missing but that of the last call,
\* which is the one call the request waits for
C17_InOrder(q) ==
  q.op \in CreateOps \cup {"deployInstance"} =>
    /\ Len(Made(q)) <= Len(Order(q.op))
    /\ Made(q) = SubSeq(Order(q.op), 1, Len(Made(q)))
    /\ Len(q.replies) <= Len(Made(q))
    /\ Len(Made(q)) <= Len(q.replies) + 1
    /\ Len(Made(q)) = Len(q.replies) + 1
         <=> /\ ~Ended(q)
             /\ q.pc = Made(q)[Len(Made(q))]

\* C17: a request in flight makes its next call in the step in which the
\* reply to its previous call arrives, when every call made before has been
\* answered
C17_Step(r) ==
  /\ C17_InOrder(req'[r])
  /\ ( /\ ~Ended(req[r])
       /\ req'[r].calls # req[r].calls )
     => /\ Len(req[r].replies) + 1 = Len(Made(req[r]))
        /\ Len(req'[r].replies) = Len(Made(req[r]))
        /\ Len(Made(req'[r])) <= Len(Made(req[r])) + 1

\* C17: within one create or one deploy the collaborator calls are issued in
\* stage order, each only after the previous one has returned, and never two
\* at once, whatever other requests are interleaved
C17_StagesInOrder == [][\A r \in Reqs : C17_Step(r)]_vars

\* a createService has made its three calls in order and ended while a
\* deployInstance waits for the second of its calls
C17_Witness ==
  \E r \in Reqs, d \in Reqs :
    /\ req[r].op = "createService"
    /\ req[r].pc = "done"
    /\ req[r].calls = <<"getApplication", "getImage", "putObject">>
    /\ Len(req[r].replies) = 3
    /\ req[d].op = "deployInstance"
    /\ req[d].pc = "getApplication"
    /\ req[d].calls = <<"getService", "getApplication">>
    /\ Len(req[d].replies) = 1

\* C18: when the application lookup of createService fails or finds no
\* application, the create ends there with the error of the application
\* check, and imgapi.getImage is not called for it
C18_Step(r) ==
  /\ ( /\ Step(r, "createService", "getApplication")
       /\ \/ LastReply(req'[r]).err # Null
          \/ LastReply(req'[r]).value = Null )
     => /\ FailedOnce(req'[r])
        /\ req'[r].cbs[1].err =
             Error("application %s doesn't exist", req[r].obj.application_uuid)
        /\ req'[r].calls = <<"getApplication">>
  /\ ( /\ req'[r].op = "createService"
       /\ Len(req'[r].replies) >= 1
       /\ \/ req'[r].replies[1].err # Null
          \/ req'[r].replies[1].value = Null )
     => /\ "getImage" \notin Range(req'[r].calls)
        /\ Len(req'[r].replies) = 1

\* C18: the referential checks of createService are fail-fast: after a failed
\* application check imgapi.getImage is never called and the caller gets the
\* error of the application check
C18_FailFast == [][\A r \in Reqs : C18_Step(r)]_vars

\* a createService whose application lookup returned an error of storage has
\* ended with the error of the application check, having made no other call
C18_Witness ==
  \E r \in Reqs :
    /\ req[r].op = "createService"
    /\ req[r].pc = "done"
    /\ req[r].replies = <<[err |-> MorayError, value |-> Null]>>
    /\ req[r].calls = <<"getApplication">>
    /\ req[r].cbs = <<[err |-> Error("application %s doesn't exist",
                                    req[r].obj.application_uuid),
                      value |-> req[r].obj]>>

\* a call of moray made in run k of initBuckets has failed: a getBucket error
\* other than BucketNotFoundError, or a createBucket error
RunFailed(k) ==
  \E reply \in boot.replies :
    /\ reply.run = k
    /\ reply.err \notin {Null, BucketNotFoundError}

\* every createBucket of the run initBuckets is in has ended
RunEnded == \A b \in Buckets : boot.pc[b] = "done"

\* C19: initBuckets has its three getBucket calls out before any is answered,
\* calls its callback once per run, when the three createBucket have ended
\* and not before, and with an error exactly when a call of the run failed
C19_ForkJoin ==
  /\ \A k \in 1..boot.run : \A b \in Buckets :
       \E call \in boot.calls :
         call.run = k /\ call.fn = "getBucket" /\ call.bucket = b
  /\ ( /\ boot.run >= 1
       /\ \A reply \in boot.replies : reply.run # boot.run )
     => \A b \in Buckets : boot.pc[b] = "getBucket"
  /\ Len(boot.cbs) = IF RunEnded THEN boot.run
                     ELSE IF boot.run = 0 THEN 0 ELSE boot.run - 1
  /\ \A k \in DOMAIN boot.cbs :
       /\ boot.cbs[k].run = k
       /\ boot.cbs[k].err # Null <=> RunFailed(k)

\* an initBuckets has ended with an error: one bucket was there, the creation
\* of another failed, the third was created
C19_Witness ==
  /\ boot.run = 1
  /\ RunEnded
  /\ Len(boot.cbs) = 1
  /\ boot.cbs[1].err # Null
  /\ boot.errs[APPLICATIONS] = Null
  /\ boot.errs[SERVICES] = Error("failed to create bucket", Null)
  /\ boot.errs[INSTANCES] = Null
  /\ [run |-> 1, fn |-> "createBucket", bucket |-> INSTANCES,
      existed |-> FALSE] \in boot.calls
  /\ DOMAIN moray = {APPLICATIONS, INSTANCES}

\* C20: the delete of an application or of a service leaves the other two
\* buckets as they were, and in its own bucket every record but the one under
\* the given identifier
C20_Step(r) ==
  StorageStep(r, DelOps, "delObject")
  => LET bucket == KindBucket(req[r].op)
         key == req[r].input.uuid
     IN  /\ \A b \in Buckets \ {bucket} : moray'[b] = moray[b]
         /\ DOMAIN moray[bucket] \ {key} \subseteq DOMAIN moray'[bucket]
         /\ DOMAIN moray'[bucket] \subseteq DOMAIN moray[bucket]
         /\ \A k \in DOMAIN moray'[bucket] : moray'[bucket][k] = moray[bucket][k]

\* C20: delete does not cascade: records that refer to the deleted
\* identifier stay as they are
C20_NoCascade == [][\A r \in Reqs : C20_Step(r)]_vars

\* an application has been deleted and a service that names it is in storage
C20_Witness ==
  \E r \in Reqs :
    /\ req[r].op = "delApplication"
    /\ req[r].cbs = <<[err |-> Null, value |-> Null]>>
    /\ ~Present(APPLICATIONS, req[r].input.uuid)
    /\ \E k \in DOMAIN moray[SERVICES] :
         moray[SERVICES][k].application_uuid = req[r].input.uuid

\* C21: a deployInstance has called vmapi.createVm at most once; the step in
\* which createVm fails hands the caller that error as it is, once, and makes
\* no further call; no step of a deployInstance changes storage
C21_Step(r) ==
  /\ req'[r].op = "deployInstance" => Count(req'[r].calls, "createVm") <= 1
  /\ ( /\ Step(r, "deployInstance", "createVm")
       /\ LastReply(req'[r]).err # Null )
     => /\ req'[r].cbs = <<[err |-> LastReply(req'[r]).err, value |-> Null]>>
        /\ req'[r].pc = "done"
        /\ req'[r].calls = req[r].calls
        /\ Len(req'[r].replies) = 3
  /\ ( /\ req'[r].op = "deployInstance"
       /\ req'[r] # req[r] )
     => moray' = moray

\* C21: each deployInstance calls vmapi.createVm at most once; when the call
\* fails its error goes unmodified to the deploy's caller, there is no retry,
\* and the deploy writes and removes no record
C21_CreateVmFailureSurfaced == [][\A r \in Reqs : C21_Step(r)]_vars

\* a deployInstance has ended with the error of its one createVm while the
\* service and the application it resolved are in storage as they were
C21_Witness ==
  \E r \in Reqs :
    /\ req[r].op = "deployInstance"
    /\ req[r].pc = "done"
    /\ req[r].calls = <<"getService", "getApplication", "assembleParams",
                        "deployZone", "createVm">>
    /\ LastReply(req[r]) = [err |-> VmapiError, value |-> Null]
    /\ req[r].cbs = <<[err |-> VmapiError, value |-> Null]>>
    /\ req[r].obj.service_uuid \in DOMAIN moray[SERVICES]
    /\ moray[SERVICES][req[r].obj.service_uuid] = req[r].service
    /\ req[r].service.application_uuid \in DOMAIN moray[APPLICATIONS]
    /\ moray[APPLICATIONS][req[r].service.application_uuid] = req[r].application

\* C22: a createApplication, createService, createInstance or deployInstance
\* that has ended, its collaborators having answered every call it made, has
\* invoked its caller's callback, with success or with an error
C22_CallbackInvoked ==
  \A r \in Reqs :
    ( /\ req[r].op \in CreateOps \cup {"deployInstance"}
      /\ Ended(req[r])
      /\ Len(req[r].replies) = Len(Made(req[r])) )
    => Len(req[r].cbs) >= 1

\* C23: the parameters deployZone passes to vmapi.createVm have the fixed
\* brand, ram, networks and server_uuid, whatever the assembled parameters
\* hold under those keys, and every other assembled parameter as it was
C23_Step ==
  ( /\ asm.pc = "deployZone"
    /\ asm'.pc = "createVm" )
  => /\ DOMAIN asm'.params = DOMAIN asm.params \cup FixedKeys
     /\ asm'.params.brand = BRAND
     /\ asm'.params.ram = RAM
     /\ asm'.params.networks = NETWORKS
     /\ asm'.params.server_uuid = SERVER_UUID
     /\ \A key \in DOMAIN asm.params \ FixedKeys :
          asm'.params[key] = asm.params[key]

\* C23: in every provisioning request of deployInstance brand is
\* 'joyent-minimal', ram is 256 and networks and server_uuid are deployZone's
\* constants, also when the params of the application, the service or the
\* instance define those keys, and every other parameter passes unchanged
C23_FixedParameters == [][C23_Step]_vars

\* the params of the application and of the instance define the four keys
\* with other values, and the request to createVm carries the fixed ones and
\* the instance's own parameter
C23_Witness ==
  /\ asm.pc = "createVm"
  /\ FixedKeys \subseteq DOMAIN ParamsOrEmpty(asm.application)
  /\ FixedKeys \subseteq DOMAIN ParamsOrEmpty(asm.instance)
  /\ asm.instance.params.brand # BRAND
  /\ asm.instance.params.ram # RAM
  /\ asm.params.brand = BRAND
  /\ asm.params.ram = RAM
  /\ asm.params.networks = NETWORKS
  /\ asm.params.server_uuid = SERVER_UUID
  /\ asm.params.a = "3"
  /\ asm.params.uuid = asm.instance.uuid

====
